---- MODULE Spec2Model ----
(***************************************************************************)
(* A model of generateHXCStats.py: the CSV loader, the grouping utility,   *)
(* the by-player, death and by-class statistics and the sorted printer.    *)
(*                                                                         *)
(* A dict is a sequence of <<key, value>> pairs in insertion order (the    *)
(* iteration order of a Python dict).  A record (one character's data) is  *)
(* a function from column header to cell string.  The console is the      *)
(* sequence `out` of printed blocks.                                       *)
(***************************************************************************)
EXTENDS Integers, Sequences, FiniteSets, TLC

VARIABLES pc, csvRow, columnHeaderList, kvStore, kvStoreGroupedByPlayer,
          killedByMobDict, totalDeaths, totalAlive,
          survivalPercentByClassDict, out, err

vars == <<pc, csvRow, columnHeaderList, kvStore, kvStoreGroupedByPlayer,
          killedByMobDict, totalDeaths, totalAlive,
          survivalPercentByClassDict, out, err>>

(***************************************************************************)
(* Bounds of the input file.                                               *)
(***************************************************************************)
\* Largest number of data rows read from the CSV file.
MaxRows == 2

\* The four columns the statistics read.
FullHeader == <<"Character Player", "Class", "Level", "Cause of Death">>

\* Header rows tried: the full header and the full header less one column.
HeaderRows ==
    {FullHeader} \cup
    {SelectSeq(FullHeader, LAMBDA h : h # FullHeader[i]) : i \in 1..Len(FullHeader)}

\* Cell values tried in each column.
CellsOf(header) ==
    CASE header = "Character Player" -> {"A", "B"}
      [] header = "Class"            -> {"Rogue", "Mage"}
      [] header = "Level"            -> {"-3", "0", "4", "x"}
      [] header = "Cause of Death"   -> {"", "Orc", "Fall"}
      [] OTHER                       -> {""}

\* Rows with one cell per header cell.
FullRowsOf(headerList) ==
    {r \in [1..Len(headerList) -> UNION {CellsOf(headerList[i]) : i \in 1..Len(headerList)}] :
        \A i \in 1..Len(headerList) : r[i] \in CellsOf(headerList[i])}

\* Rows with fewer cells than the header (a blank line is the row <<>>).
ShortRowsOf(headerList) ==
    {SubSeq(r, 1, k) : r \in FullRowsOf(headerList), k \in 0..(Len(headerList) - 1)}

\* Rows with one cell more than the header.
LongRowsOf(headerList) ==
    {Append(r, "extra") : r \in FullRowsOf(headerList)}

DataRowsOf(headerList) ==
    FullRowsOf(headerList) \cup ShortRowsOf(headerList) \cup LongRowsOf(headerList)

(***************************************************************************)
(* Helpers for dicts and integers.                                         *)
(***************************************************************************)
Min(S) == CHOOSE m \in S : \A n \in S : m <= n

Range(s) == {s[i] : i \in 1..Len(s)}

DictKeys(d) == {d[i][1] : i \in 1..Len(d)}

DictHas(d, k) == k \in DictKeys(d)

DictGet(d, k) == d[CHOOSE i \in 1..Len(d) : d[i][1] = k][2]

\* d[k] = v : an existing key keeps its place, a new key goes last.
DictSet(d, k, v) ==
    IF DictHas(d, k)
    THEN [i \in 1..Len(d) |-> IF d[i][1] = k THEN <<k, v>> ELSE d[i]]
    ELSE Append(d, <<k, v>>)

\* int(str): the literals Python accepts among the cells tried, and a few
\* spellings that parse to the same number.
IsIntLiteral(cell) == cell \in {"-3", "0", "4", "+4", "04", " 4 ", "-0"}

int(cell) ==
    CASE cell = "-3" -> -3
      [] cell \in {"0", "-0"} -> 0
      [] cell \in {"4", "+4", "04", " 4 "} -> 4

\* A Python string is true when it is not empty.
Truthy(cell) == cell # ""

(***************************************************************************)
(* extractCSVDataToKVStore: the body of the loop over the rows.            *)
(***************************************************************************)
\* The dict built from one data row: characterData[columnHeaderList[index]]
\* = cell, for each cell of the row in turn (a later cell overwrites).
characterData(headerList, row) ==
    [k \in {headerList[i] : i \in 1..Len(row)} |->
        row[CHOOSE i \in 1..Len(row) :
                /\ headerList[i] = k
                /\ \A j \in 1..Len(row) : headerList[j] = k => j <= i]]

\* columnHeaderList[index] raises IndexError when the row is longer.
RowIndexError(headerList, row) == Len(row) > Len(headerList)

Init ==
    /\ pc = "start"
    /\ csvRow = <<>>
    /\ columnHeaderList = <<>>
    /\ kvStore = <<>>
    /\ kvStoreGroupedByPlayer = <<>>
    /\ killedByMobDict = <<>>
    /\ totalDeaths = 0
    /\ totalAlive = 0
    /\ survivalPercentByClassDict = <<>>
    /\ out = <<>>
    /\ err = "none"

Block(title, underline, entries) ==
    [title |-> title, underline |-> underline, entries |-> entries]

\* len(sys.argv) < 2: print the usage message and exit(-1).
UsageError ==
    /\ pc = "start"
    /\ pc' = "exit"
    /\ err' = "SystemExit"
    /\ out' = Append(out, Block("Must specify .csv file to generate queries from.", "", <<>>))
    /\ UNCHANGED <<csvRow, columnHeaderList, kvStore, kvStoreGroupedByPlayer,
                   killedByMobDict, totalDeaths, totalAlive, survivalPercentByClassDict>>

\* open(csvFileName) raises when the file cannot be read.
OpenFails ==
    /\ pc = "start"
    /\ pc' = "exit"
    /\ err' = "OSError"
    /\ UNCHANGED <<csvRow, columnHeaderList, kvStore, kvStoreGroupedByPlayer,
                   killedByMobDict, totalDeaths, totalAlive, survivalPercentByClassDict, out>>

OpenFile ==
    /\ pc = "start"
    /\ pc' = "load"
    /\ UNCHANGED <<csvRow, columnHeaderList, kvStore, kvStoreGroupedByPlayer,
                   killedByMobDict, totalDeaths, totalAlive, survivalPercentByClassDict, out, err>>

\* One iteration of `for csvRow in csvReader`.
ReadRow ==
    /\ pc = "load"
    /\ Len(kvStore) < MaxRows
    /\ \E row \in (IF Len(columnHeaderList) < 1
                   THEN HeaderRows \cup {<<>>}
                   ELSE DataRowsOf(columnHeaderList)) :
        /\ csvRow' = row
        /\ IF Len(columnHeaderList) < 1
           THEN /\ columnHeaderList' = row
                /\ UNCHANGED <<kvStore, pc, err>>
           ELSE IF RowIndexError(columnHeaderList, row)
           THEN /\ pc' = "exit"
                /\ err' = "IndexError"
                /\ UNCHANGED <<columnHeaderList, kvStore>>
           ELSE /\ kvStore' = Append(kvStore, characterData(columnHeaderList, row))
                /\ UNCHANGED <<columnHeaderList, pc, err>>
    /\ UNCHANGED <<kvStoreGroupedByPlayer, killedByMobDict, totalDeaths, totalAlive,
                   survivalPercentByClassDict, out>>

\* The reader is exhausted: return kvStore.
EndOfFile ==
    /\ pc = "load"
    /\ pc' = "byPlayer"
    /\ UNCHANGED <<csvRow, columnHeaderList, kvStore, kvStoreGroupedByPlayer,
                   killedByMobDict, totalDeaths, totalAlive, survivalPercentByClassDict, out, err>>

(***************************************************************************)
(* groupKVStoreByColumn                                                    *)
(***************************************************************************)
\* characterDict[columnToGroupBy] raises KeyError on a record without it.
GroupKeyError(columnStatsKVStore, columnToGroupBy) ==
    \E i \in 1..Len(columnStatsKVStore) :
        columnToGroupBy \notin DOMAIN columnStatsKVStore[i]

GroupStepOverwrite(groupedKVStore, characterDict, columnToGroupBy) ==
    DictSet(groupedKVStore, characterDict[columnToGroupBy], <<characterDict>>)

\* One iteration of the loop: append to the key's list, or start a list.
GroupStep(groupedKVStore, characterDict, columnToGroupBy) ==
    LET currentColValue == characterDict[columnToGroupBy] IN
    IF DictHas(groupedKVStore, currentColValue)
    THEN DictSet(groupedKVStore, currentColValue,
                 Append(DictGet(groupedKVStore, currentColValue), characterDict))
    ELSE DictSet(groupedKVStore, currentColValue, <<characterDict>>)

RECURSIVE GroupLoop(_, _, _)
GroupLoop(groupedKVStore, rest, columnToGroupBy) ==
    IF rest = <<>> THEN groupedKVStore
    ELSE GroupLoop(GroupStep(groupedKVStore, Head(rest), columnToGroupBy),
                   Tail(rest), columnToGroupBy)

groupKVStoreByColumn(columnStatsKVStore, columnToGroupBy) ==
    GroupLoop(<<>>, columnStatsKVStore, columnToGroupBy)

(***************************************************************************)
(* generateMonocharcterString and printSortedDict                          *)
(***************************************************************************)
RECURSIVE MonoLoop(_, _, _, _)
MonoLoop(monoCharString, i, character, length) ==
    IF i < length
    THEN MonoLoop(monoCharString \o character, i + 1, character, length)
    ELSE monoCharString

generateMonocharcterString(character, length) ==
    MonoLoop("", 0, character, length)

RECURSIVE InsertDescBeforeEqual(_, _)
InsertDescBeforeEqual(sortedItems, item) ==
    IF sortedItems = <<>> THEN <<item>>
    ELSE IF Head(sortedItems)[2] <= item[2]
         THEN <<item>> \o sortedItems
         ELSE <<Head(sortedItems)>> \o InsertDescBeforeEqual(Tail(sortedItems), item)

\* Stable insertion of an item into a list already in descending order:
\* the item goes after every item that is not smaller than it.
RECURSIVE InsertDesc(_, _)
InsertDesc(sortedItems, item) ==
    IF sortedItems = <<>> THEN <<item>>
    ELSE IF Head(sortedItems)[2] < item[2]
         THEN <<item>> \o sortedItems
         ELSE <<Head(sortedItems)>> \o InsertDesc(Tail(sortedItems), item)

RECURSIVE SortLoop(_, _)
SortLoop(sortedItems, rest) ==
    IF rest = <<>> THEN sortedItems
    ELSE SortLoop(InsertDesc(sortedItems, Head(rest)), Tail(rest))

\* sorted(items, key=lambda x: x[1], reverse=True): descending by value,
\* items with equal values in their original order.
sorted(items) == SortLoop(<<>>, items)

\* The block printSortedDict prints: title, underline, one line per entry.
printSortedDict(printDict, sectionTitle) ==
    Block(sectionTitle,
          generateMonocharcterString("-", Len(sectionTitle)),
          sorted(printDict))

(***************************************************************************)
(* By-player statistics                                                    *)
(***************************************************************************)
\* The first exception a loop raises, given what each iteration raises
\* ("none" for an iteration that raises nothing).
FirstError(errors) ==
    LET bad == {i \in 1..Len(errors) : errors[i] # "none"} IN
    IF bad = {} THEN "none" ELSE errors[Min(bad)]

\* The characters in the order the by-player loops visit them.
RECURSIVE Flatten(_)
Flatten(grouped) ==
    IF grouped = <<>> THEN <<>> ELSE Head(grouped)[2] \o Flatten(Tail(grouped))

\* int(character['Level'])
LevelError(character) ==
    IF "Level" \notin DOMAIN character THEN "KeyError"
    ELSE IF ~IsIntLiteral(character["Level"]) THEN "ValueError"
    ELSE "none"

\* if character['Cause of Death']: ... int(character['Level'])
DeadLevelError(character) ==
    IF "Cause of Death" \notin DOMAIN character THEN "KeyError"
    ELSE IF Truthy(character["Cause of Death"]) THEN LevelError(character)
    ELSE "none"

max(a, b) == IF b > a THEN b ELSE a

\* math.floor(a / b) for b > 0
floorDiv(a, b) == a \div b

NcOf(characterList) == Len(characterList)

RECURSIVE GlgLoop(_, _)
GlgLoop(currentPlayerGlg, rest) ==
    IF rest = <<>> THEN currentPlayerGlg
    ELSE GlgLoop(currentPlayerGlg + int(Head(rest)["Level"]), Tail(rest))

GlgOf(characterList) == GlgLoop(0, characterList)

RECURSIVE HlcLoop(_, _)
HlcLoop(currentPlayerHighestLevel, rest) ==
    IF rest = <<>> THEN currentPlayerHighestLevel
    ELSE HlcLoop(max(currentPlayerHighestLevel, int(Head(rest)["Level"])), Tail(rest))

HlcOf(characterList) == HlcLoop(0, characterList)

AclNoDivision(characterList) == GlgLoop(0, characterList)

AclOf(characterList) ==
    floorDiv(GlgLoop(0, characterList), Len(characterList))

\* The loop of printMdlByPlayer: acc = <<totalDeadCharacterLevels,
\* numberOfDeadCharacters>>.
RECURSIVE MdlLoop(_, _)
MdlLoop(acc, rest) ==
    IF rest = <<>> THEN acc
    ELSE IF Truthy(Head(rest)["Cause of Death"])
         THEN MdlLoop(<<acc[1] + int(Head(rest)["Level"]), acc[2] + 1>>, Tail(rest))
         ELSE MdlLoop(acc, Tail(rest))

MdlAllLevels(characterList) ==
    LET acc == MdlLoop(<<0, 0>>, characterList) IN
    IF acc[2] > 0 THEN floorDiv(GlgLoop(0, characterList), acc[2]) ELSE 0

MdlOf(characterList) ==
    LET acc == MdlLoop(<<0, 0>>, characterList) IN
    IF acc[2] > 0 THEN floorDiv(acc[1], acc[2]) ELSE 0

\* characterDict['Cause of Death']
CauseKeyError(character) ==
    IF "Cause of Death" \notin DOMAIN character THEN "KeyError" ELSE "none"

RECURSIVE DeadLoop(_, _)
DeadLoop(count, rest) ==
    IF rest = <<>> THEN count
    ELSE IF Truthy(Head(rest)["Cause of Death"])
         THEN DeadLoop(count + 1, Tail(rest))
         ELSE DeadLoop(count, Tail(rest))

RECURSIVE LivingLoop(_, _)
LivingLoop(livingCharacters, rest) ==
    IF rest = <<>> THEN livingCharacters
    ELSE IF ~Truthy(Head(rest)["Cause of Death"])
         THEN LivingLoop(livingCharacters + 1, Tail(rest))
         ELSE LivingLoop(livingCharacters, Tail(rest))

SurvivalOfDead(characterList) == <<DeadLoop(0, characterList), Len(characterList)>>

\* survivalPercentage = livingCharacters / len(characterList): the float is
\* kept as the pair <<dividend, divisor>>.
SurvivalOf(characterList) == <<LivingLoop(0, characterList), Len(characterList)>>

\* The value a statistic stores for one group.
StatOf(stat, characterList) ==
    CASE stat = "NC"    -> NcOf(characterList)
      [] stat = "GLG"   -> GlgOf(characterList)
      [] stat = "HLC"   -> HlcOf(characterList)
      [] stat = "ACL"   -> AclOf(characterList)
      [] stat = "MDL"   -> MdlOf(characterList)
      [] stat = "class" -> SurvivalOf(characterList)

\* What a statistic raises when its loop reaches a character.
StatError(stat, character) ==
    CASE stat = "NC"    -> "none"
      [] stat \in {"GLG", "HLC", "ACL"} -> LevelError(character)
      [] stat = "MDL"   -> DeadLevelError(character)
      [] stat = "class" -> CauseKeyError(character)

\* for key, characterList in grouped.items():
\*     resultDict[key] = <the statistic of characterList>
RECURSIVE ForEachGroup(_, _, _)
ForEachGroup(stat, resultDict, rest) ==
    IF rest = <<>> THEN resultDict
    ELSE ForEachGroup(stat,
                      DictSet(resultDict, Head(rest)[1], StatOf(stat, Head(rest)[2])),
                      Tail(rest))

\* printByPlayerStats, up to its first print: group the store by player.
GroupByPlayer ==
    /\ pc = "byPlayer"
    /\ IF GroupKeyError(kvStore, "Character Player")
       THEN /\ pc' = "exit"
            /\ err' = "KeyError"
            /\ UNCHANGED kvStoreGroupedByPlayer
       ELSE /\ pc' = "NC"
            /\ kvStoreGroupedByPlayer' = groupKVStoreByColumn(kvStore, "Character Player")
            /\ UNCHANGED err
    /\ UNCHANGED <<csvRow, columnHeaderList, kvStore, killedByMobDict, totalDeaths,
                   totalAlive, survivalPercentByClassDict, out>>

\* A by-player print method: it raises the first error of its loop, or
\* prints its dict.
PlayerStat(stat, next, sectionTitle) ==
    /\ LET characters == Flatten(kvStoreGroupedByPlayer)
           error == FirstError([i \in 1..Len(characters) |->
                                   StatError(stat, characters[i])])
       IN IF error # "none"
          THEN /\ pc' = "exit"
               /\ err' = error
               /\ UNCHANGED out
          ELSE /\ pc' = next
               /\ out' = Append(out, printSortedDict(
                             ForEachGroup(stat, <<>>, kvStoreGroupedByPlayer),
                             sectionTitle))
               /\ UNCHANGED err
    /\ UNCHANGED <<csvRow, columnHeaderList, kvStore, kvStoreGroupedByPlayer,
                   killedByMobDict, totalDeaths, totalAlive, survivalPercentByClassDict>>

printNcByPlayer ==
    /\ pc = "NC"
    /\ PlayerStat("NC", "GLG", "NC (Number of Characters)")

printGlgByPlayer ==
    /\ pc = "GLG"
    /\ PlayerStat("GLG", "HLC", "GLG (Gross Levels Gained)")

printHlcByPlayer ==
    /\ pc = "HLC"
    /\ PlayerStat("HLC", "ACL", "HCL (Highest Character Level)")

printAclByPlayer ==
    /\ pc = "ACL"
    /\ PlayerStat("ACL", "MDL", "ACL (Average Character Life)")

printMdlByPlayer ==
    /\ pc = "MDL"
    /\ PlayerStat("MDL", "death", "MDL (Mean Death Level)")

(***************************************************************************)
(* Death statistics                                                        *)
(***************************************************************************)
\* The orders in which a `for` loop may visit a Python set: the order
\* depends on the strings' hashes, which change from run to run.
SetOrders(S) ==
    {order \in [1..Cardinality(S) -> S] :
        \A i, j \in 1..Cardinality(S) : order[i] = order[j] => i = j}

ListCountAsMember(list, x) == IF x \in Range(list) THEN 1 ELSE 0

\* list.count(x)
ListCount(list, x) == Cardinality({i \in 1..Len(list) : list[i] = x})

\* The loop over killedByMobSet: state = [dict, deaths, alive].
RECURSIVE MobLoop(_, _, _)
MobLoop(state, rest, killedByMobList) ==
    IF rest = <<>> THEN state
    ELSE LET mob == Head(rest) IN
         IF mob # ""
         THEN LET dict == DictSet(state.dict, mob, ListCount(killedByMobList, mob)) IN
              MobLoop([state EXCEPT !.dict = dict,
                                    !.deaths = @ + DictGet(dict, mob)],
                      Tail(rest), killedByMobList)
         ELSE MobLoop([state EXCEPT !.alive = ListCount(killedByMobList, mob)],
                      Tail(rest), killedByMobList)

RECURSIVE gcd(_, _)
gcd(a, b) == IF b = 0 THEN a ELSE gcd(b, a % b)

FractionFailsOnZeroByZero(numerator, denominator) == numerator = 0 /\ denominator = 0

\* Fraction(numerator, denominator) raises ZeroDivisionError.
FractionZeroDivision(numerator, denominator) == denominator = 0

\* str(Fraction(numerator, denominator)), for numerator >= 0, denominator > 0
FractionStr(numerator, denominator) ==
    LET g == gcd(numerator, denominator) IN
    IF denominator \div g = 1
    THEN ToString(numerator \div g)
    ELSE ToString(numerator \div g) \o "/" \o ToString(denominator \div g)

printDeathStats ==
    /\ pc = "death"
    /\ IF FirstError([i \in 1..Len(kvStore) |-> CauseKeyError(kvStore[i])]) # "none"
       THEN /\ pc' = "exit"
            /\ err' = "KeyError"
            /\ UNCHANGED <<killedByMobDict, totalDeaths, totalAlive, out>>
       ELSE LET killedByMobList == [i \in 1..Len(kvStore) |-> kvStore[i]["Cause of Death"]]
                killedByMobSet == Range(killedByMobList)
            IN \E order \in SetOrders(killedByMobSet) :
               LET final == MobLoop([dict |-> <<>>, deaths |-> 0, alive |-> 0],
                                    order, killedByMobList)
                   table == printSortedDict(final.dict,
                               "Cause of Death (" \o ToString(final.deaths) \o ")")
               IN /\ killedByMobDict' = final.dict
                  /\ totalDeaths' = final.deaths
                  /\ totalAlive' = final.alive
                  /\ IF FractionZeroDivision(final.deaths, final.alive)
                     THEN /\ pc' = "exit"
                          /\ err' = "ZeroDivisionError"
                          /\ out' = Append(out, table)
                     ELSE /\ pc' = "byClass"
                          /\ out' = out \o <<table,
                                 Block("Dead-to-Living Ratio: "
                                         \o FractionStr(final.deaths, final.alive),
                                       "", <<>>)>>
                          /\ UNCHANGED err
    /\ UNCHANGED <<csvRow, columnHeaderList, kvStore, kvStoreGroupedByPlayer,
                   survivalPercentByClassDict>>

(***************************************************************************)
(* By-class statistics                                                     *)
(***************************************************************************)
\* Comparison of two such floats.
RateLess(a, b) == a[1] * b[2] < b[1] * a[2]

RECURSIVE InsertRateDesc(_, _)
InsertRateDesc(sortedItems, item) ==
    IF sortedItems = <<>> THEN <<item>>
    ELSE IF RateLess(Head(sortedItems)[2], item[2])
         THEN <<item>> \o sortedItems
         ELSE <<Head(sortedItems)>> \o InsertRateDesc(Tail(sortedItems), item)

RECURSIVE SortRateLoop(_, _)
SortRateLoop(sortedItems, rest) ==
    IF rest = <<>> THEN sortedItems
    ELSE SortRateLoop(InsertRateDesc(sortedItems, Head(rest)), Tail(rest))

\* sorted(...) of the by-class dict, whose values are floats.
sortedRates(items) == SortRateLoop(<<>>, items)

\* "%i" % (rate * 100)
Percent(rate) == (rate[1] * 100) \div rate[2]

printByClassStats ==
    /\ pc = "byClass"
    /\ pc' = "exit"
    /\ IF GroupKeyError(kvStore, "Class")
       THEN /\ err' = "KeyError"
            /\ UNCHANGED <<survivalPercentByClassDict, out>>
       ELSE LET kvStoreGroupedByClass == groupKVStoreByColumn(kvStore, "Class") IN
            IF FirstError([i \in 1..Len(kvStore) |->
                    StatError("class", Flatten(kvStoreGroupedByClass)[i])]) # "none"
            THEN /\ err' = "KeyError"
                 /\ UNCHANGED <<survivalPercentByClassDict, out>>
            ELSE IF \E i \in 1..Len(kvStoreGroupedByClass) :
                        Len(kvStoreGroupedByClass[i][2]) = 0
            THEN /\ err' = "ZeroDivisionError"
                 /\ UNCHANGED <<survivalPercentByClassDict, out>>
            ELSE LET sortedDict ==
                         sortedRates(ForEachGroup("class", <<>>, kvStoreGroupedByClass))
                 IN /\ survivalPercentByClassDict' = sortedDict
                    /\ out' = Append(out,
                          Block("Survival Rate By Class", "--------",
                                [i \in 1..Len(sortedDict) |->
                                    <<sortedDict[i][1], Percent(sortedDict[i][2])>>]))
                    /\ UNCHANGED err
    /\ UNCHANGED <<csvRow, columnHeaderList, kvStore, kvStoreGroupedByPlayer,
                   killedByMobDict, totalDeaths, totalAlive>>

Next ==
    \/ UsageError
    \/ OpenFails
    \/ OpenFile
    \/ ReadRow
    \/ EndOfFile
    \/ GroupByPlayer
    \/ printNcByPlayer
    \/ printGlgByPlayer
    \/ printHlcByPlayer
    \/ printAclByPlayer
    \/ printMdlByPlayer
    \/ printDeathStats
    \/ printByClassStats

Spec == Init /\ [][Next]_vars

(***************************************************************************)
(* Vocabulary of the properties, stated over the store and the console.    *)
(***************************************************************************)
Required == {"Character Player", "Class", "Level", "Cause of Death"}

\* extractCSVDataToKVStore has returned its store.
Returned == pc \notin {"start", "load"} /\ err \notin {"SystemExit", "OSError", "IndexError"}

Printed(title) == \E b \in 1..Len(out) : out[b].title = title

EntriesOf(title) == out[CHOOSE b \in 1..Len(out) : out[b].title = title].entries

ValueIn(entries, key) == entries[CHOOSE i \in 1..Len(entries) : entries[i][1] = key][2]

\* The rows of the store that belong to a value of a column.
RowsWith(column, value) ==
    {i \in 1..Len(kvStore) : column \in DOMAIN kvStore[i] /\ kvStore[i][column] = value}

Players ==
    {kvStore[i]["Character Player"] :
        i \in {j \in 1..Len(kvStore) : "Character Player" \in DOMAIN kvStore[j]}}

DeadRows == {i \in 1..Len(kvStore) :
                "Cause of Death" \in DOMAIN kvStore[i] /\ kvStore[i]["Cause of Death"] # ""}

LivingRows == RowsWith("Cause of Death", "")

RECURSIVE SumLevels(_)
SumLevels(rows) ==
    IF rows = {} THEN 0
    ELSE LET i == CHOOSE r \in rows : TRUE IN
         int(kvStore[i]["Level"]) + SumLevels(rows \ {i})

MaxLevel(rows) ==
    CHOOSE m \in {int(kvStore[i]["Level"]) : i \in rows} :
        \A i \in rows : int(kvStore[i]["Level"]) <= m

\* The integer q with q <= a/b < q + 1, for b > 0.
Floor(a, b) == CHOOSE q \in -(a * a + 1)..(a * a + 1) : q * b <= a /\ a < (q + 1) * b

RECURSIVE SumValues(_)
SumValues(entries) ==
    IF entries = <<>> THEN 0 ELSE Head(entries)[2] + SumValues(Tail(entries))

FirstSeen(column, value) == Min(RowsWith(column, value))

PositionIn(dict, key) == CHOOSE i \in 1..Len(dict) : dict[i][1] = key

NcTitle == "NC (Number of Characters)"
GlgTitle == "GLG (Gross Levels Gained)"
HlcTitle == "HCL (Highest Character Level)"
AclTitle == "ACL (Average Character Life)"
MdlTitle == "MDL (Mean Death Level)"
ClassTitle == "Survival Rate By Class"

\* The cause-of-death table has been printed.
DeathTablePrinted == Len(out) >= 6

(***************************************************************************)
(* C1                                                                      *)
(***************************************************************************)
\* C1: a data row whose number of cells differs from the number of header
\* cells is a fatal error, so every record of a returned store has exactly
\* the header's key set.
C1_RowMismatchIsFatal ==
    /\ (Len(columnHeaderList) >= 1 /\ Len(csvRow) # Len(columnHeaderList))
          => err # "none"
    /\ Returned => \A i \in 1..Len(kvStore) : DOMAIN kvStore[i] = Range(columnHeaderList)

(***************************************************************************)
(* C2                                                                      *)
(***************************************************************************)
\* C2: when the header lacks a required column and records were loaded,
\* each with one cell per header cell, the run ends with a fatal error and
\* nothing was printed before it.
C2_NoPartialReport ==
    (/\ pc = "exit"
     /\ Returned
     /\ Len(kvStore) >= 1
     /\ \A i \in 1..Len(kvStore) : DOMAIN kvStore[i] = Range(columnHeaderList)
     /\ \E c \in Required : c \notin Range(columnHeaderList))
    => (err # "none" /\ out = <<>>)

(***************************************************************************)
(* C3                                                                      *)
(***************************************************************************)
NoLiving == LivingRows = {}

\* The by-player statistics can read every record.
StatsReadable ==
    \A i \in 1..Len(kvStore) :
        /\ {"Character Player", "Level", "Cause of Death"} \subseteq DOMAIN kvStore[i]
        /\ IsIntLiteral(kvStore[i]["Level"])

\* C3: on a store without a living character the run never prints the
\* by-class section, and when the by-player statistics can read the store
\* it ends in ZeroDivisionError right after the five by-player sections and
\* the cause-of-death table.
C3_ZeroLivingFails ==
    (Returned /\ NoLiving) =>
        /\ pc # "byClass"
        /\ ~Printed(ClassTitle)
        /\ (pc = "exit" /\ StatsReadable) =>
              /\ err = "ZeroDivisionError"
              /\ [b \in 1..Len(out) |-> out[b].title] =
                    <<NcTitle, GlgTitle, HlcTitle, AclTitle, MdlTitle,
                      "Cause of Death (" \o ToString(Len(kvStore)) \o ")">>

C3_Witness ==
    /\ pc = "exit"
    /\ err = "ZeroDivisionError"
    /\ Len(kvStore) >= 1
    /\ NoLiving
    /\ Len(out) = 6

(***************************************************************************)
(* C4                                                                      *)
(***************************************************************************)
\* C4: killedByMobDict has one entry per distinct non-empty cause, none for
\* the empty one, each the number of records with that cause; the entries
\* sum to totalDeaths, totalAlive is the number of records with an empty
\* cause, and totalDeaths + totalAlive is the number of records.
C4_DeathCounts ==
    DeathTablePrinted =>
        /\ DictKeys(killedByMobDict) = {kvStore[i]["Cause of Death"] : i \in DeadRows}
        /\ Len(killedByMobDict) = Cardinality(DictKeys(killedByMobDict))
        /\ \A e \in Range(killedByMobDict) :
              e[2] = Cardinality(RowsWith("Cause of Death", e[1]))
        /\ SumValues(killedByMobDict) = totalDeaths
        /\ totalAlive = Cardinality(LivingRows)
        /\ totalDeaths + totalAlive = Len(kvStore)

C4_Witness ==
    /\ DeathTablePrinted
    /\ totalAlive >= 1
    /\ totalDeaths >= 1
    /\ totalDeaths + totalAlive = Len(kvStore)

(***************************************************************************)
(* C5                                                                      *)
(***************************************************************************)
\* C5: the HLC printed for a player is the maximum of the Level values of
\* that player's records.
C5_HlcIsMax ==
    Printed(HlcTitle) =>
        \A e \in Range(EntriesOf(HlcTitle)) :
            e[2] = MaxLevel(RowsWith("Character Player", e[1]))

(***************************************************************************)
(* C6                                                                      *)
(***************************************************************************)
DeadRowsOf(player) == RowsWith("Character Player", player) \cap DeadRows

\* C6: the MDL printed for a player is the floor of the mean Level of the
\* player's records with a non-empty cause of death, and 0 when the player
\* has none; one value is printed for every player.
C6_MdlIsFlooredDeadMean ==
    Printed(MdlTitle) =>
        /\ {e[1] : e \in Range(EntriesOf(MdlTitle))} = Players
        /\ \A e \in Range(EntriesOf(MdlTitle)) :
              e[2] = IF DeadRowsOf(e[1]) = {} THEN 0
                     ELSE Floor(SumLevels(DeadRowsOf(e[1])), Cardinality(DeadRowsOf(e[1])))

C6_Witness ==
    /\ Printed(MdlTitle)
    /\ \E e \in Range(EntriesOf(MdlTitle)) :
          /\ DeadRowsOf(e[1]) # {}
          /\ \E i \in RowsWith("Character Player", e[1]) \ DeadRows :
                int(kvStore[i]["Level"]) # 0
          /\ e[2] # 0

(***************************************************************************)
(* C7                                                                      *)
(***************************************************************************)
\* C7: the ACL printed for a player is the floor of the mean Level of the
\* player's records, and is at most the HLC printed for the same player.
C7_AclAtMostHlc ==
    Printed(AclTitle) =>
        \A e \in Range(EntriesOf(AclTitle)) :
            /\ e[2] = Floor(SumLevels(RowsWith("Character Player", e[1])),
                            Cardinality(RowsWith("Character Player", e[1])))
            /\ e[2] <= ValueIn(EntriesOf(HlcTitle), e[1])

C7_Witness ==
    /\ Printed(AclTitle)
    /\ \E e \in Range(EntriesOf(AclTitle)) :
          /\ Cardinality(RowsWith("Character Player", e[1])) >= 2
          /\ e[2] < ValueIn(EntriesOf(HlcTitle), e[1])
          /\ e[2] = Floor(SumLevels(RowsWith("Character Player", e[1])),
                          Cardinality(RowsWith("Character Player", e[1])))

(***************************************************************************)
(* C8                                                                      *)
(***************************************************************************)
Classes == {kvStore[i]["Class"] : i \in {j \in 1..Len(kvStore) : "Class" \in DOMAIN kvStore[j]}}

\* C8: the by-class section ends without an error; every class has one
\* rate, the number of its living records over the number of its records;
\* the divisor is positive, the rate lies in [0, 1], and a class without a
\* living record has the rate 0.
C8_SurvivalRate ==
    Printed(ClassTitle) =>
        /\ err = "none"
        /\ DictKeys(survivalPercentByClassDict) = Classes
        /\ Len(survivalPercentByClassDict) = Cardinality(Classes)
        /\ \A e \in Range(survivalPercentByClassDict) :
              /\ e[2][2] = Cardinality(RowsWith("Class", e[1]))
              /\ e[2][2] > 0
              /\ e[2][1] = Cardinality(RowsWith("Class", e[1]) \cap LivingRows)
              /\ 0 <= e[2][1] /\ e[2][1] <= e[2][2]
              /\ (RowsWith("Class", e[1]) \cap LivingRows = {}) =>
                    (e[2][1] = 0 /\ ValueIn(EntriesOf(ClassTitle), e[1]) = 0)

C8_Witness ==
    /\ Printed(ClassTitle)
    /\ pc = "exit"
    /\ \E e \in Range(survivalPercentByClassDict) :
          RowsWith("Class", e[1]) \cap LivingRows = {}

(***************************************************************************)
(* C9                                                                      *)
(***************************************************************************)
\* C9: grouping a non-empty store by player puts every record in exactly
\* one non-empty group, the group of its own player, so the NC values sum
\* to the number of records.
C9_NcSumsToRecordCount ==
    (Printed(NcTitle) /\ kvStore # <<>>) =>
        /\ DictKeys(kvStoreGroupedByPlayer) = Players
        /\ Len(kvStoreGroupedByPlayer) = Cardinality(Players)
        /\ \A g \in Range(kvStoreGroupedByPlayer) :
              /\ g[2] # <<>>
              /\ g[2] = SelectSeq(kvStore, LAMBDA r : r["Character Player"] = g[1])
              /\ ValueIn(EntriesOf(NcTitle), g[1]) = Len(g[2])
        /\ SumValues(EntriesOf(NcTitle)) = Len(kvStore)

C9_Witness ==
    /\ Printed(NcTitle)
    /\ Len(kvStore) >= 2
    /\ \E g \in Range(kvStoreGroupedByPlayer) : Len(g[2]) >= 2

(***************************************************************************)
(* C10                                                                     *)
(***************************************************************************)
PlayerTitles == {NcTitle, GlgTitle, HlcTitle, AclTitle, MdlTitle}

\* C10: every by-player section lists one entry per player, by value
\* descending, entries with equal values in the order in which the players
\* first appear in the store; the cause-of-death table is by value
\* descending, entries with equal values in the order of killedByMobDict.
C10_SortedDescendingStable ==
    /\ \A b \in 1..Len(out) :
          out[b].title \in PlayerTitles =>
              LET entries == out[b].entries IN
              /\ {entries[i][1] : i \in 1..Len(entries)} = Players
              /\ \A i, j \in 1..Len(entries) :
                    i < j =>
                       \/ entries[i][2] > entries[j][2]
                       \/ /\ entries[i][2] = entries[j][2]
                          /\ FirstSeen("Character Player", entries[i][1])
                                < FirstSeen("Character Player", entries[j][1])
    /\ DeathTablePrinted =>
          LET entries == out[6].entries IN
          /\ Range(entries) = Range(killedByMobDict)
          /\ \A i, j \in 1..Len(entries) :
                i < j =>
                   \/ entries[i][2] > entries[j][2]
                   \/ /\ entries[i][2] = entries[j][2]
                      /\ PositionIn(killedByMobDict, entries[i][1])
                            < PositionIn(killedByMobDict, entries[j][1])

C10_Witness ==
    /\ Printed(NcTitle)
    /\ Len(EntriesOf(NcTitle)) = 2
    /\ EntriesOf(NcTitle)[1][2] = EntriesOf(NcTitle)[2][2]
    /\ DeathTablePrinted
    /\ Len(out[6].entries) = 2
====
